---- MODULE Spec2Model ----
(***************************************************************************)
(* BottomBar: a fixed-height bar kept at the bottom of a terminal with     *)
(* ANSI escape codes (src/BottomBar.py).                                   *)
(*                                                                         *)
(* The renderer only writes strings to stdout; what the user sees is what  *)
(* the terminal makes of them.  The model therefore has two layers:        *)
(*   - the strings BottomBar builds (InitPayload, PrintPayload,            *)
(*     BarLinePayload, FinalPayload), token by token as the code           *)
(*     concatenates them;                                                  *)
(*   - a terminal (screen of Rows rows, scrollback, cursor) that executes  *)
(*     each token with its ECMA-48 / VT100 meaning: LF, CUU (ESC[nA),      *)
(*     CUD (ESC[nB), IL (ESC[nL), EL 2 (ESC[2K) and CNL (ESC[E).           *)
(* The terminal starts blank with the cursor at the start of any row; the  *)
(* screen is tall enough for the bar plus the tallest printed text, and    *)
(* wide enough that no line wraps.                                         *)
(* Every screen line carries a ghost tag: the region row (0..height-1) it  *)
(* was reserved as by init, or NoTag.  Tags travel with the lines when the *)
(* terminal scrolls or inserts lines, so "region row y" is well defined    *)
(* whatever the escape sequences did.                                      *)
(***************************************************************************)
EXTENDS Integers, Sequences, FiniteSets, TLC

\* ------------------------------------------------------------------ bounds
MaxHeight == 2      \* bar heights 1..MaxHeight (plus the rejected 0 and -1)
MaxBreaks == 1      \* most line breaks in a printed text
MaxOps == 2         \* most calls made inside one `with` body
Slack == 1          \* screen rows beyond MaxHeight + MaxBreaks + 1

\* The screen is tall enough for the bar plus the tallest printed text.
Rows == MaxHeight + MaxBreaks + 1 + Slack

NL == "\n"
NoTag == -1

Min(a, b) == IF a < b THEN a ELSE b
Max(a, b) == IF a > b THEN a ELSE b

\* ------------------------------------------------------- output tokens
\* One element of the string handed to the built-in print: a character
\* (a line feed included) or one escape sequence with its parameter.
Ch(c) == [op |-> "ch", n |-> 0, c |-> c]
Esc(op, n) == [op |-> op, n |-> n, c |-> ""]

\* "\n" * n
RECURSIVE Repeat(_, _)
Repeat(x, n) == IF n <= 0 THEN <<>> ELSE <<x>> \o Repeat(x, n - 1)

\* str -> the characters written
RECURSIVE Chars(_)
Chars(s) == IF s = <<>> THEN <<>> ELSE <<Ch(Head(s))>> \o Chars(Tail(s))

\* content_str.count('\n')
RECURSIVE Count(_, _)
Count(s, c) ==
    IF s = <<>> THEN 0
    ELSE (IF Head(s) = c THEN 1 ELSE 0) + Count(Tail(s), c)

\* '\n' in content_str
Contains(s, c) == \E i \in 1..Len(s) : s[i] = c

\* ------------------------------------------------------------ terminal
BlankLine == [tag |-> NoTag, txt |-> <<>>]

\* A printable character written at column col (0-based) of a line:
\* it replaces what is there, padding with spaces when the line is shorter.
PutChar(txt, col, c) ==
    [i \in 1..Max(Len(txt), col + 1) |->
        IF i = col + 1 THEN c
        ELSE IF i <= Len(txt) THEN txt[i]
        ELSE " "]

\* A missing or zero parameter of a cursor sequence counts as 1.
Param(n) == IF n <= 0 THEN 1 ELSE n

\* Line feed as the tty delivers it (ONLCR: carriage return + line feed):
\* on the last screen row the screen scrolls up by one line.
LineFeed(t) ==
    IF t.row = Rows
    THEN [t EXCEPT !.hist = Append(t.hist, t.screen[1]),
                   !.screen = Append(Tail(t.screen), BlankLine),
                   !.col = 0]
    ELSE [t EXCEPT !.row = t.row + 1, !.col = 0]

\* ESC[nA: cursor up n rows, stopping at the first row.
CursorUp(t, n) == [t EXCEPT !.row = Max(1, t.row - Param(n))]

\* ESC[nB: cursor down n rows, stopping at the last row (no scrolling).
CursorDown(t, n) == [t EXCEPT !.row = Min(Rows, t.row + Param(n))]

\* ESC[E (CNL, cursor next line): start of the line one row down,
\* stopping at the last row (no scrolling).
CursorNextLine(t) == [t EXCEPT !.row = Min(Rows, t.row + 1), !.col = 0]

\* ESC[nL: insert n blank lines at the cursor row; the lines from the
\* cursor row on move down and those pushed past the last row are lost.
InsertLines(t, n) ==
    [t EXCEPT !.screen =
        [i \in 1..Rows |->
            IF i < t.row THEN t.screen[i]
            ELSE IF i < t.row + Param(n) THEN BlankLine
            ELSE t.screen[i - Param(n)]],
              !.col = 0]

\* ESC[2K: erase the whole cursor line; the cursor does not move.
EraseLine(t) == [t EXCEPT !.screen[t.row].txt = <<>>]

\* A printable character: written at the cursor, which moves right.
WriteChar(t, c) ==
    [t EXCEPT !.screen[t.row].txt = PutChar(t.screen[t.row].txt, t.col, c),
              !.col = t.col + 1]

Exec(t, tok) ==
    CASE tok.op = "ch" /\ tok.c = NL -> LineFeed(t)
      [] tok.op = "ch" /\ tok.c # NL -> WriteChar(t, tok.c)
      [] tok.op = "CUU" -> CursorUp(t, tok.n)
      [] tok.op = "CUD" -> CursorDown(t, tok.n)
      [] tok.op = "CNL" -> CursorNextLine(t)
      [] tok.op = "IL" -> InsertLines(t, tok.n)
      [] tok.op = "EL2" -> EraseLine(t)

\* The terminal after one write of the token sequence p to stdout.
RECURSIVE Feed(_, _)
Feed(t, p) == IF p = <<>> THEN t ELSE Feed(Exec(t, Head(p)), Tail(p))

\* ------------------------------------------------- strings BottomBar builds
\* BottomBar.__init__: assert bar_height > 0
HeightOk(h) == h > 0

\* Mutant: the loop runs bar_height times (range(self._bar_height)).
InitPayload_ExtraLine(h) == Repeat(Ch(NL), h) \o <<>>

\* BottomBar.init: bar_height - 1 times print(), then print("", end='').
InitPayload(h) == Repeat(Ch(NL), h - 1) \o <<>>

\* BottomBar.print: assert "end" not in kwargs
PrintOk(kwargs) == "end" \notin kwargs

\* Mutant: str_manip_end lacks the move down by bar_height rows.
PrintPayload_NoDown(h, content_str) ==
    LET n == Count(content_str, NL) + 1
        str_manip_start == Repeat(Ch(NL), n)
                           \o <<Esc("CUU", h + n - 1)>>
                           \o <<Esc("IL", n)>>
        str_manip_end == <<Esc("CNL", 0)>>
    IN  str_manip_start \o Chars(content_str) \o str_manip_end

\* BottomBar.print: payload_str = str_manip_start + content_str + str_manip_end
PrintPayload(h, content_str) ==
    LET n == Count(content_str, NL) + 1
        str_manip_start == Repeat(Ch(NL), n)
                           \o <<Esc("CUU", h + n - 1)>>
                           \o <<Esc("IL", n)>>
        str_manip_end == <<Esc("CUD", h)>> \o <<Esc("CNL", 0)>>
    IN  str_manip_start \o Chars(content_str) \o str_manip_end

\* Mutant: the range check reads 0 <= y <= bar_height.
BarLineOk_YUpToHeight(h, y, content_str) ==
    /\ 0 <= y /\ y <= h
    /\ ~Contains(content_str, NL)

\* BottomBar.print_bar_line: the two asserts
BarLineOk(h, y, content_str) ==
    /\ 0 <= y /\ y < h
    /\ ~Contains(content_str, NL)

\* BottomBar.print_bar_line: payload_str, last line special case included
BarLinePayload(h, y, content_str) ==
    IF y = h - 1
    THEN <<Esc("EL2", 2)>> \o Chars(content_str) \o <<Esc("CNL", 0)>>
    ELSE <<Esc("CUU", h - y - 1)>>
         \o <<Esc("EL2", 2)>>
         \o Chars(content_str)
         \o <<Esc("CUD", h - y - 1)>>
         \o <<Esc("CNL", 0)>>

\* BottomBar.print_final_line: print("", end='\n')
FinalPayload == <<>> \o <<Ch(NL)>>

\* logging.Formatter('%(asctime)s - %(levelname)s - %(message)s')
Format(record) ==
    <<record.asctime, " - ", record.levelname, " - ">> \o record.msg

\* ------------------------------------------------------------------ inputs
\* "a", "a\nb", "a\nb\nb", ...: a text with k line breaks
Multi(k) == <<"a">> \o [i \in 1..(2 * k) |-> IF i % 2 = 1 THEN NL ELSE "b"]

\* Texts handed to print: empty, with 0..MaxBreaks line breaks, and with a
\* trailing line break.
PrintInputs ==
    {<<>>} \cup {Multi(k) : k \in 0..MaxBreaks}
           \cup {Multi(k) \o <<NL>> : k \in 0..(MaxBreaks - 1)}

KwargInputs == {{}, {"flush"}, {"end"}}

\* Texts handed to print_bar_line: two single lines and one with a break.
BarInputs == {<<"x">>, <<"y">>, <<"x", NL, "y">>}

HeightInputs == (-1)..MaxHeight

RecordInputs ==
    [asctime : {"t"}, levelname : {"INFO"}, msg : {<<"m">>, <<"m", NL, "m">>}]

\* ------------------------------------------------------------------- state
VARIABLES
    pc,          \* "start", "failed", "made", "body", "raised", "done":
                 \* where the script is; "raised" = an assert of a body
                 \* call failed and the error is leaving the `with` body
    bar_height,  \* self._bar_height (0 before construction)
    term,        \* the terminal: [screen, hist, row, col]
    written,     \* number of characters and escape sequences sent to stdout
    calls,       \* log of the BottomBar methods invoked, in order
    records,     \* the log records handed to LoggingBottomBarHandler.emit
    start,       \* the line the cursor was on when init began (ghost)
    propagated   \* an error left the `with` statement

vars == <<pc, bar_height, term, written, calls, records, start, propagated>>

Call(m, y, s, kw, ok) == [m |-> m, y |-> y, s |-> s, kw |-> kw, ok |-> ok]

\* Number of the line the cursor is on, counting the scrolled-off lines.
AbsRow(t) == Len(t.hist) + t.row

\* The terminal before the program starts: a blank screen with the cursor
\* at the start of any row.
Init ==
    /\ pc = "start"
    /\ bar_height = 0
    /\ \E r \in 1..Rows :
          term = [screen |-> [i \in 1..Rows |-> BlankLine],
                  hist |-> <<>>, row |-> r, col |-> 0]
    /\ written = 0
    /\ calls = <<>>
    /\ records = <<>>
    /\ start = 0
    /\ propagated = FALSE

\* BottomBar(bar_height)
__init__(h) ==
    /\ pc = "start"
    /\ IF HeightOk(h)
       THEN /\ bar_height' = h
            /\ pc' = "made"
            /\ calls' = Append(calls, Call("__init__", h, <<>>, {}, TRUE))
       ELSE /\ bar_height' = bar_height
            /\ pc' = "failed"
            /\ calls' = Append(calls, Call("__init__", h, <<>>, {}, FALSE))
    /\ UNCHANGED <<term, written, records, start, propagated>>

\* The rows init has reserved: the bar_height rows ending at the cursor row
\* get the tags 0..bar_height-1 (ghost).
Reserve(t, h) ==
    [t EXCEPT !.screen =
        [i \in 1..Rows |->
            IF i > t.row - h /\ i <= t.row
            THEN [t.screen[i] EXCEPT !.tag = i - (t.row - h) - 1]
            ELSE t.screen[i]]]

\* BottomBar.init
init ==
    /\ term' = Reserve(Feed(term, InitPayload(bar_height)), bar_height)
    /\ written' = written + Len(InitPayload(bar_height))
    /\ calls' = Append(calls, Call("init", 0, <<>>, {}, TRUE))
    /\ start' = AbsRow(term)

\* with BottomBar(...) as bar:
__enter__ ==
    /\ pc = "made"
    /\ init
    /\ pc' = "body"
    /\ UNCHANGED <<bar_height, records, propagated>>

\* BottomBar.print
print(content_str, kwargs) ==
    /\ pc = "body"
    /\ Len(calls) < MaxOps + 2
    /\ IF PrintOk(kwargs)
       THEN /\ term' = Feed(term, PrintPayload(bar_height, content_str))
            /\ written' = written + Len(PrintPayload(bar_height, content_str))
            /\ calls' = Append(calls, Call("print", 0, content_str, kwargs, TRUE))
            /\ pc' = pc
       ELSE /\ calls' = Append(calls, Call("print", 0, content_str, kwargs, FALSE))
            /\ pc' = "raised"
            /\ UNCHANGED <<term, written>>
    /\ UNCHANGED <<bar_height, start, propagated>>

\* BottomBar.print_bar_line
print_bar_line(y, content_str) ==
    /\ pc = "body"
    /\ Len(calls) < MaxOps + 2
    /\ IF BarLineOk(bar_height, y, content_str)
       THEN /\ term' = Feed(term, BarLinePayload(bar_height, y, content_str))
            /\ written' = written
                          + Len(BarLinePayload(bar_height, y, content_str))
            /\ calls' = Append(calls, Call("print_bar_line", y, content_str, {}, TRUE))
            /\ pc' = pc
       ELSE /\ calls' = Append(calls, Call("print_bar_line", y, content_str, {}, FALSE))
            /\ pc' = "raised"
            /\ UNCHANGED <<term, written>>
    /\ UNCHANGED <<bar_height, records, start, propagated>>

\* BottomBar.print_final_line
print_final_line ==
    /\ term' = Feed(term, FinalPayload)
    /\ written' = written + Len(FinalPayload)
    /\ calls' = Append(calls, Call("print_final_line", 0, <<>>, {}, TRUE))

\* Mutant: __exit__ prints the final line only when the body did not raise.
__exit__OnSuccessOnly ==
    /\ pc \in {"body", "raised"}
    /\ IF pc = "body"
       THEN print_final_line
       ELSE UNCHANGED <<term, written, calls>>
    /\ propagated' = (pc = "raised")
    /\ pc' = "done"
    /\ UNCHANGED <<bar_height, records, start>>

\* BottomBar.__exit__: runs print_final_line and returns None, so an error
\* raised in the body goes on to the caller.
__exit__ ==
    /\ pc \in {"body", "raised"}
    /\ print_final_line
    /\ propagated' = (pc = "raised")
    /\ pc' = "done"
    /\ UNCHANGED <<bar_height, records, start>>

\* Mutant: emit prints the raw message instead of self.format(record).
emit_Unformatted(record) ==
    /\ records' = Append(records, record)
    /\ print(record.msg, {})

\* LoggingBottomBarHandler.emit
emit(record) ==
    /\ records' = Append(records, record)
    /\ print(Format(record), {})

\* A direct call of bar.print from the body.
CallPrint == \E s \in PrintInputs, kw \in KwargInputs :
    print(s, kw) /\ UNCHANGED records

CallBarLine == \E y \in (-1)..bar_height, s \in BarInputs : print_bar_line(y, s)

Log == \E r \in RecordInputs : emit(r)

Next ==
    \/ \E h \in HeightInputs : __init__(h)
    \/ __enter__
    \/ CallPrint
    \/ CallBarLine
    \/ Log
    \/ __exit__

Spec == Init /\ [][Next]_vars

\* The same program started with the cursor on the last screen row (a
\* terminal whose screen is already full), where ESC[E cannot move down.
InitBottom == Init /\ term.row = Rows

SpecBottom == InitBottom /\ [][Next]_vars

\* ------------------------------------------------------ what is displayed
\* Every line of the terminal, scrolled-off lines first.
Lines(t) == t.hist \o t.screen

\* The positions of the lines reserved as region row y.
RegionAt(t, y) == {i \in 1..Len(Lines(t)) : Lines(t)[i].tag = y}

\* The position of region row y (0 when the line is gone).
RegionIdx(t, y) ==
    IF RegionAt(t, y) = {} THEN 0 ELSE CHOOSE i \in RegionAt(t, y) : TRUE

\* The region is displayed as bar_height consecutive lines, rows in order.
RegionIntact(t, h) ==
    \A y \in 0..(h - 1) :
        /\ RegionAt(t, y) # {}
        /\ RegionIdx(t, y) = RegionIdx(t, 0) + y

\* The text shown at position y of the region: on the line y rows below the
\* region's top line.
Shown(t, y) ==
    IF RegionIdx(t, 0) > 0 /\ RegionIdx(t, 0) + y <= Len(Lines(t))
    THEN Lines(t)[RegionIdx(t, 0) + y].txt
    ELSE <<"?">>

\* The lines above the region: texts of the lines before the region's top.
Above(t) == [i \in 1..(RegionIdx(t, 0) - 1) |-> Lines(t)[i].txt]

\* The cursor relative to the region: rows below the region's last row, column.
CursorRel(t, h) == <<AbsRow(t) - RegionIdx(t, h - 1), t.col>>

\* The text of the most recent successful print_bar_line(y, .) in cs.
RECURSIVE LastBar(_, _)
LastBar(cs, y) ==
    IF cs = <<>> THEN <<>>
    ELSE LET c == cs[Len(cs)]
         IN  IF c.m = "print_bar_line" /\ c.ok /\ c.y = y THEN c.s
             ELSE LastBar(SubSeq(cs, 1, Len(cs) - 1), y)

\* The lines of a text: the pieces between its line breaks.
RECURSIVE SplitLines(_)
SplitLines(s) ==
    IF ~Contains(s, NL) THEN <<s>>
    ELSE LET i == CHOOSE j \in 1..Len(s) :
                     s[j] = NL /\ \A k \in 1..(j - 1) : s[k] # NL
         IN  <<SubSeq(s, 1, i - 1)>> \o SplitLines(SubSeq(s, i + 1, Len(s)))

\* The lines of all successfully printed texts of cs, in call order.
RECURSIVE Printed(_)
Printed(cs) ==
    IF cs = <<>> THEN <<>>
    ELSE LET c == cs[Len(cs)]
         IN  Printed(SubSeq(cs, 1, Len(cs) - 1))
             \o (IF c.m = "print" /\ c.ok THEN SplitLines(c.s) ELSE <<>>)

\* The last k elements of a sequence.
LastK(q, k) == SubSeq(q, Len(q) - k + 1, Len(q))

InBody == pc \in {"body", "raised"}

\* This step is a successful call of method m.
Did(m) ==
    /\ Len(calls') = Len(calls) + 1
    /\ calls'[Len(calls')].m = m
    /\ calls'[Len(calls')].ok

LastCall == calls[Len(calls)]

\* ------------------------------------------------------------------ claims
\* C1: after init, every region row y shows the text of the most recent
\* print_bar_line(y, .) call (blank if none), whatever was printed: the
\* region stays bar_height consecutive rows and print never changes it.
C1_RegionShowsLastBarLine ==
    InBody =>
        /\ RegionIntact(term, bar_height)
        /\ \A y \in 0..(bar_height - 1) : Shown(term, y) = LastBar(calls, y)

\* C2: the lines directly above the region are the lines of all printed
\* texts in call order (k+1 lines per text with k line breaks).
C2_PrintedLinesAboveRegion ==
    InBody =>
        /\ Len(Above(term)) >= Len(Printed(calls))
        /\ LastK(Above(term), Len(Printed(calls))) = Printed(calls)

\* C3: a print call leaves the cursor where it was relative to the region.
C3_PrintKeepsCursor ==
    [][Did("print") => CursorRel(term, bar_height)' = CursorRel(term, bar_height)]_vars

\* C4: print_bar_line(y, text) called from the resting position that init
\* leaves (start of the region's last row) shows text on region row y,
\* leaves the other region rows and the lines above unchanged and returns
\* the cursor to that resting position.
C4_BarLineFrame ==
    [][(Did("print_bar_line") /\ CursorRel(term, bar_height) = <<0, 0>>) =>
          /\ Shown(term', calls'[Len(calls')].y) = calls'[Len(calls')].s
          /\ \A z \in 0..(bar_height - 1) :
                z # calls'[Len(calls')].y => Shown(term', z) = Shown(term, z)
          /\ Above(term') = Above(term)
          /\ CursorRel(term', bar_height) = CursorRel(term, bar_height)]_vars

\* A call whose arguments break a documented precondition.
BadCall(c) ==
    \/ c.m = "__init__" /\ c.y <= 0
    \/ c.m = "print_bar_line"
       /\ (c.y < 0 \/ c.y >= bar_height \/ Contains(c.s, NL))
    \/ c.m = "print" /\ "end" \in c.kw

\* C5: a call that breaks a precondition (height <= 0, y outside
\* [0, height), a line break in a bar text, an `end` keyword) raises and
\* writes nothing: the output stream and the terminal are unchanged.
C5_FailsBeforeEmitting ==
    [][(Len(calls') = Len(calls) + 1 /\ BadCall(calls'[Len(calls')])) =>
          /\ ~calls'[Len(calls')].ok
          /\ pc' \in {"failed", "raised"}
          /\ written' = written
          /\ term' = term]_vars

C5_Witness ==
    /\ pc = "raised"
    /\ written > 0
    /\ LastCall.m = "print_bar_line"
    /\ LastCall.y >= bar_height

\* init immediately followed by print_final_line has run.
InitThenFinal ==
    /\ pc = "done"
    /\ Len(calls) = 3
    /\ calls[2].m = "init"
    /\ calls[3].m = "print_final_line"

\* C6 as stated: init then print_final_line leaves the cursor one row below
\* the region's bottom row, height + 1 lines below where it was before init.
C6_AdvancesHeightPlusOne ==
    InitThenFinal =>
        /\ AbsRow(term) = RegionIdx(term, bar_height - 1) + 1
        /\ AbsRow(term) - start = bar_height + 1

\* C6 amended: init then print_final_line leaves the cursor one row below
\* the region's bottom row, exactly height lines below where it was before
\* init (height - 1 line feeds of init and one of print_final_line).
C6_AdvancesHeight ==
    InitThenFinal =>
        /\ AbsRow(term) = RegionIdx(term, bar_height - 1) + 1
        /\ AbsRow(term) - start = bar_height

C6_Witness == InitThenFinal /\ bar_height = MaxHeight /\ term.hist # <<>>

\* The number of calls of method m in cs.
NCalls(cs, m) == Cardinality({i \in 1..Len(cs) : cs[i].m = m})

\* C7: leaving the `with` statement, normally or by an error raised in the
\* body, finds init called exactly once before every body call and calls
\* print_final_line exactly once, last; a raised error goes on to the
\* caller; nothing is written after the final newline.
C7_FinalOnEveryExit ==
    [][/\ (pc # "done" /\ pc' = "done") =>
            /\ NCalls(calls', "init") = 1
            /\ calls'[2].m = "init"
            /\ NCalls(calls', "print_final_line") = 1
            /\ calls' = Append(calls, Call("print_final_line", 0, <<>>, {}, TRUE))
            /\ written' = written + 1
            /\ propagated' = (pc = "raised")
       /\ (pc # "done" /\ pc' # "done") =>
            /\ NCalls(calls', "print_final_line") = 0
            /\ ~propagated'
            /\ (pc' \in {"body", "raised"} =>
                   NCalls(calls', "init") = 1 /\ calls'[2].m = "init")
       /\ pc = "done" => written' = written /\ calls' = calls]_vars

C7_Witness ==
    /\ pc = "done"
    /\ propagated
    /\ Len(calls) = MaxOps + 3
    /\ ~calls[Len(calls) - 1].ok

\* A successful print call has just returned.
AfterPrint == InBody /\ LastCall.m = "print" /\ LastCall.ok

\* C8 as stated: after every print call the cursor rests at the start of
\* the line immediately below the region.
C8_RestsBelowRegion ==
    AfterPrint => CursorRel(term, bar_height) = <<1, 0>>

\* C8 amended: after every print call the cursor rests at the start of a
\* line that is the region's last row or a line below it.
C8_RestsAtOrBelowLastRow ==
    AfterPrint =>
        /\ RegionAt(term, bar_height - 1) # {}
        /\ term.col = 0
        /\ AbsRow(term) >= RegionIdx(term, bar_height - 1)

C8_Witness ==
    /\ AfterPrint
    /\ NCalls(calls, "print") = 2
    /\ CursorRel(term, bar_height) = <<0, 0>>

\* C9: every record handed to emit becomes exactly one successful print
\* call with the formatted record text and no other renderer call.
C9_EmitIsOnePrint ==
    [][records' # records =>
          /\ Len(records') = Len(records) + 1
          /\ SubSeq(records', 1, Len(records)) = records
          /\ calls' = Append(calls,
                 Call("print", 0, Format(records'[Len(records')]), {}, TRUE))]_vars

C9_Witness ==
    /\ Len(records) = 2
    /\ records[1] # records[2]
    /\ LastCall.s = Format(records[2])

\* C10: print_bar_line(height - 1, text) called after init, a print or a
\* print_bar_line emits no cursor up or down sequence, and the row it
\* clears and writes is the region's last row, because the cursor already
\* rests on that row.
C10_LastRowWrittenInPlace ==
    [][(Did("print_bar_line") /\ calls'[Len(calls')].y = bar_height - 1) =>
          /\ \A i \in 1..Len(BarLinePayload(bar_height, bar_height - 1,
                                             calls'[Len(calls')].s)) :
                BarLinePayload(bar_height, bar_height - 1,
                               calls'[Len(calls')].s)[i].op
                    \notin {"CUU", "CUD"}
          /\ AbsRow(term) = RegionIdx(term, bar_height - 1)
          /\ Lines(term')[RegionIdx(term', bar_height - 1)].txt
                = calls'[Len(calls')].s]_vars

====
